---- MODULE Spec2Model ----
(***************************************************************************)
(* EHR quality audit pipeline: EHRValidator (validators.py),               *)
(* OutlierDetector (outlier_detector.py), QualityScorer                    *)
(* (quality_scorer.py) and EHRQualityAuditor (ehr_quality_auditor.py).     *)
(*                                                                         *)
(* Representation of Python values:                                        *)
(*   str            a sequence of one-character strings                    *)
(*   Optional[str]  [kind |-> "str" | "none", s |-> characters]            *)
(*   number / other [kind |-> "num" | "text", n |-> Int, s |-> STRING]     *)
(*   dict           the sequence of its items [name, value], in the        *)
(*                  dict's iteration (insertion) order, names distinct     *)
(*   list           a sequence                                             *)
(*   float score    an exact fraction [num, den], den > 0                  *)
(***************************************************************************)
EXTENDS Integers, Sequences, FiniteSets, TLC

VARIABLES
    records,             \* argument `records` of the running call
    pc,                  \* position of the running call
    idx,                 \* records consumed by the loop of process_records
    validation_results,  \* the list of findings being built / passed in
    origin,              \* history: for each finding, the stage and record it came from
    isolation_forest,    \* OutlierDetector.isolation_forest (fit state)
    report,              \* the returned QualityReport, or NoReport
    exc,                 \* the exception that ended the call, or "none"
    previous_forest      \* history: isolation_forest as the running call found it

vars ==
    <<records, pc, idx, validation_results, origin, isolation_forest, report, exc,
      previous_forest>>

-----------------------------------------------------------------------------
(* Bounds of the model *)

\* longest batch over the full record set
MaxBatch == 2
\* size of the population batches given to the auditor
PopSize == 12
\* number of distinct anomaly-score levels a fit may assign
MaxScore == 2
\* longest finding list handed directly to calculate_scores
MaxFindings == 2

-----------------------------------------------------------------------------
(* Python values *)

Str(chars) == [kind |-> "str", s |-> chars]
None == [kind |-> "none", s |-> <<>>]
Num(n) == [kind |-> "num", n |-> n, s |-> ""]
Text(t) == [kind |-> "text", n |-> 0, s |-> t]
Item(name, value) == [name |-> name, value |-> value]

Digits == {"0", "1", "2", "3", "4", "5", "6", "7", "8", "9"}
UpperLetters == {"A", "B", "C", "D", "E", "F", "G", "H", "I", "J", "K", "L", "M",
                 "N", "O", "P", "Q", "R", "S", "T", "U", "V", "W", "X", "Y", "Z"}

RECURSIVE Join(_)
\* the Python string of a character sequence
Join(chars) == IF chars = <<>> THEN "" ELSE Head(chars) \o Join(Tail(chars))

\* str(x) of an Optional[str], as an f-string formats it
Format(x) == IF x.kind = "none" THEN "None" ELSE Join(x.s)

Keys(d) == {d[i].name : i \in 1..Len(d)}
\* dict.get(name, default)
Get(d, name, default) ==
    IF name \in Keys(d)
    THEN (CHOOSE it \in {d[i] : i \in 1..Len(d)} : it.name = name).value
    ELSE default

\* `$` of Python's re matches at the end of the string and also just before a
\* newline that is the last character
DollarEnds(s, n) == Len(s) = n \/ (Len(s) = n + 1 /\ s[n + 1] = "\n")

\* re.match(r'^P\d{6}$', s)
MatchPatientId(s) ==
    /\ Len(s) >= 7
    /\ s[1] = "P"
    /\ \A i \in 2..7 : s[i] \in Digits
    /\ DollarEnds(s, 7)

\* re.match(r'^[A-Z]\d{2}(\.\d+)?$', s)
MatchICD10(s) ==
    /\ Len(s) >= 3
    /\ s[1] \in UpperLetters
    /\ s[2] \in Digits
    /\ s[3] \in Digits
    /\ \/ DollarEnds(s, 3)
       \/ \E n \in 5..Len(s) :
            /\ s[4] = "."
            /\ \A i \in 5..n : s[i] \in Digits
            /\ DollarEnds(s, n)

-----------------------------------------------------------------------------
(* ValidationResult and call outcomes *)

ValidationResult(field_name, error_message, severity) ==
    [field_name |-> field_name, is_valid |-> FALSE,
     error_message |-> error_message, severity |-> severity]

Ok(results) == [exc |-> "none", results |-> results]
Raise(e) == [exc |-> e, results |-> <<>>]

-----------------------------------------------------------------------------
(* EHRValidator *)

vital_signs_ranges ==
    << Item("blood_pressure_systolic", <<60, 200>>),
       Item("blood_pressure_diastolic", <<40, 130>>),
       Item("heart_rate", <<40, 200>>),
       Item("temperature", <<35, 42>>),
       Item("respiratory_rate", <<8, 40>>) >>

RangeOf(name) == Get(vital_signs_ranges, name, <<0, 0>>)

_validate_patient_id(patient_id) ==
    IF patient_id.kind # "str"
    THEN Raise("TypeError")
    ELSE IF ~MatchPatientId(patient_id.s)
         THEN Ok(<<ValidationResult("patient_id",
                     "Patient ID must be in format P followed by 6 digits", "high")>>)
         ELSE Ok(<<>>)

\* mutant: the ends of the range are excluded
VitalFinding_strict(it) ==
    IF it.name \in Keys(vital_signs_ranges)
    THEN LET min_val == RangeOf(it.name)[1]
             max_val == RangeOf(it.name)[2]
         IN  IF ~(min_val < it.value.n /\ it.value.n < max_val)
             THEN <<ValidationResult("vital_signs." \o it.name,
                       it.name \o " value " \o ToString(it.value.n)
                         \o " is outside normal range (" \o ToString(min_val)
                         \o "-" \o ToString(max_val) \o ")",
                       "medium")>>
             ELSE <<>>
    ELSE <<>>

\* the finding of one item of vital_signs, <<>> when it passes or is not in the table
VitalFinding(it) ==
    IF it.name \in Keys(vital_signs_ranges)
    THEN LET min_val == RangeOf(it.name)[1]
             max_val == RangeOf(it.name)[2]
         IN  IF ~(min_val <= it.value.n /\ it.value.n <= max_val)
             THEN <<ValidationResult("vital_signs." \o it.name,
                       it.name \o " value " \o ToString(it.value.n)
                         \o " is outside normal range (" \o ToString(min_val)
                         \o "-" \o ToString(max_val) \o ")",
                       "medium")>>
             ELSE <<>>
    ELSE <<>>

\* the comparison min_val <= value <= max_val raises on a value that is no number
VitalRaises(it) == it.name \in Keys(vital_signs_ranges) /\ it.value.kind # "num"

RECURSIVE VitalLoop(_, _)
VitalLoop(items, results) ==
    IF items = <<>> THEN Ok(results)
    ELSE IF VitalRaises(Head(items)) THEN Raise("TypeError")
    ELSE VitalLoop(Tail(items), results \o VitalFinding(Head(items)))

_validate_vital_signs(vital_signs) == VitalLoop(vital_signs, <<>>)

required_fields == <<"age", "gender", "race">>

RECURSIVE DemographicsLoop(_, _, _)
DemographicsLoop(fields, demographics, results) ==
    IF fields = <<>> THEN results
    ELSE DemographicsLoop(Tail(fields), demographics,
            IF Head(fields) \notin Keys(demographics)
            THEN Append(results,
                    ValidationResult("demographics." \o Head(fields),
                        "Missing required demographic field: " \o Head(fields),
                        "medium"))
            ELSE results)

_validate_demographics(demographics) ==
    Ok(DemographicsLoop(required_fields, demographics, <<>>))

RECURSIVE DiagnosisLoop(_, _)
DiagnosisLoop(codes, results) ==
    IF codes = <<>> THEN results
    ELSE DiagnosisLoop(Tail(codes),
            IF ~MatchICD10(Head(codes))
            THEN Append(results,
                    ValidationResult("diagnosis_codes",
                        "Invalid ICD-10 code format: " \o Join(Head(codes)), "high"))
            ELSE results)

_validate_diagnosis_codes(codes) == Ok(DiagnosisLoop(codes, <<>>))

\* results.extend(...) four times; the first raise ends the call
validate_record(record) ==
    LET a == _validate_patient_id(record.patient_id)
        b == _validate_vital_signs(record.vital_signs)
        c == _validate_demographics(record.demographics)
        d == _validate_diagnosis_codes(record.diagnosis_codes)
    IN  IF a.exc # "none" THEN a
        ELSE IF b.exc # "none" THEN b
        ELSE IF c.exc # "none" THEN c
        ELSE IF d.exc # "none" THEN d
        ELSE Ok(a.results \o b.results \o c.results \o d.results)

-----------------------------------------------------------------------------
(* EHRRecord, as validators.py, outlier_detector.py and quality_scorer.py read it *)

EHRRecord(id, vitals, meds, codes, labs, demo, notes) ==
    [patient_id |-> id, vital_signs |-> vitals,
     medications |-> meds, diagnosis_codes |-> codes,
     lab_results |-> labs, demographics |-> demo, notes |-> notes]

\* truth value of an Optional[str]: None and "" are false
TruthyStr(x) == x.kind = "str" /\ Len(x.s) > 0
\* truth value of a dict or a list
TruthyColl(c) == Len(c) > 0

-----------------------------------------------------------------------------
(* QualityScorer *)

Fraction(n, d) == [num |-> n, den |-> d]

total_fields == 7

\* mutant: the test of notes is inverted
fields_present_notes_inverted(record) ==
      (IF TruthyStr(record.patient_id) THEN 1 ELSE 0)
    + (IF TruthyColl(record.vital_signs) THEN 1 ELSE 0)
    + (IF TruthyColl(record.medications) THEN 1 ELSE 0)
    + (IF TruthyColl(record.diagnosis_codes) THEN 1 ELSE 0)
    + (IF TruthyColl(record.lab_results) THEN 1 ELSE 0)
    + (IF TruthyColl(record.demographics) THEN 1 ELSE 0)
    + (IF TruthyStr(record.notes) THEN 0 ELSE 1)

\* mutant: the patient identifier is not counted
fields_present_without_id(record) ==
      (IF TruthyColl(record.vital_signs) THEN 1 ELSE 0)
    + (IF TruthyColl(record.medications) THEN 1 ELSE 0)
    + (IF TruthyColl(record.diagnosis_codes) THEN 1 ELSE 0)
    + (IF TruthyColl(record.lab_results) THEN 1 ELSE 0)
    + (IF TruthyColl(record.demographics) THEN 1 ELSE 0)
    + (IF TruthyStr(record.notes) THEN 1 ELSE 0)

fields_present(record) ==
      (IF TruthyStr(record.patient_id) THEN 1 ELSE 0)
    + (IF TruthyColl(record.vital_signs) THEN 1 ELSE 0)
    + (IF TruthyColl(record.medications) THEN 1 ELSE 0)
    + (IF TruthyColl(record.diagnosis_codes) THEN 1 ELSE 0)
    + (IF TruthyColl(record.lab_results) THEN 1 ELSE 0)
    + (IF TruthyColl(record.demographics) THEN 1 ELSE 0)
    + (IF TruthyStr(record.notes) THEN 1 ELSE 0)

RECURSIVE SumPresent(_)
SumPresent(recs) ==
    IF recs = <<>> THEN 0 ELSE fields_present(Head(recs)) + SumPresent(Tail(recs))

\* (sum of fields_present / total_fields) / len(records) * 100, 0 for no records
_calculate_completeness(recs) ==
    IF Len(recs) > 0
    THEN Fraction(100 * SumPresent(recs), total_fields * Len(recs))
    ELSE Fraction(0, 1)

_is_record_consistent(record) ==
    LET systolic == Get(record.vital_signs, "blood_pressure_systolic", Num(0)).n
        diastolic == Get(record.vital_signs, "blood_pressure_diastolic", Num(0)).n
    IN  IF systolic <= diastolic THEN FALSE
        ELSE IF Len(record.medications) > 0 /\ Len(record.diagnosis_codes) = 0
             THEN FALSE
             ELSE TRUE

consistent_records(recs) ==
    Cardinality({i \in 1..Len(recs) : _is_record_consistent(recs[i])})

_calculate_consistency(recs) ==
    IF Len(recs) = 0
    THEN Fraction(0, 1)
    ELSE Fraction(100 * consistent_records(recs), Len(recs))

\* mutant: the failed results are the ones counted
_calculate_accuracy_invalid(results) ==
    IF Len(results) = 0
    THEN Fraction(100, 1)
    ELSE Fraction(100 * Cardinality({i \in 1..Len(results) : ~results[i].is_valid}),
                  Len(results))

\* mutant: no findings score 0 like the other two scores
_calculate_accuracy_zero(results) ==
    IF Len(results) = 0
    THEN Fraction(0, 1)
    ELSE Fraction(100 * Cardinality({i \in 1..Len(results) : results[i].is_valid}),
                  Len(results))

_calculate_accuracy(results) ==
    IF Len(results) = 0
    THEN Fraction(100, 1)
    ELSE Fraction(100 * Cardinality({i \in 1..Len(results) : results[i].is_valid}),
                  Len(results))

\* QualityReport; its timestamp (datetime.now()) is not modelled
calculate_scores(recs, results) ==
    [completeness_score |-> _calculate_completeness(recs),
     consistency_score |-> _calculate_consistency(recs),
     accuracy_score |-> _calculate_accuracy(results),
     validation_results |-> results,
     record_count |-> Len(recs)]

NoReport == [record_count |-> -1]

-----------------------------------------------------------------------------
(* OutlierDetector *)

\* IsolationForest(contamination=0.1): the expected share of outliers, in percent
contamination_pct == 10

NotFitted == [fitted |-> FALSE]

\* one row of the feature matrix
record_features(record) ==
    << Get(record.vital_signs, "blood_pressure_systolic", Num(0)),
       Get(record.vital_signs, "blood_pressure_diastolic", Num(0)),
       Get(record.vital_signs, "heart_rate", Num(0)),
       Get(record.vital_signs, "temperature", Num(0)),
       Num(Len(record.medications)),
       Num(Len(record.diagnosis_codes)) >>

_extract_features(recs) == [i \in 1..Len(recs) |-> record_features(recs[i])]

Rows(features) == {features[i] : i \in 1..Len(features)}

\* IsolationForest.fit rejects an array that is not 2-D (np.array([]) of an empty
\* batch) or that holds a value it cannot convert to a float
FitRaises(features) ==
    \/ Len(features) = 0
    \/ \E i \in 1..Len(features) : \E j \in 1..6 : features[i][j].kind # "num"

\* the k-th smallest (k from 1) of the scores of the rows
KthSmallest(features, score, k) ==
    CHOOSE v \in {score[features[i]] : i \in 1..Len(features)} :
        /\ Cardinality({i \in 1..Len(features) : score[features[i]] < v}) < k
        /\ Cardinality({i \in 1..Len(features) : score[features[i]] <= v}) >= k

\* 100 * np.percentile(score_samples(X), 100 * contamination), linear interpolation
Offset100(features, score) ==
    LET n == Len(features)
        pos == contamination_pct * (n - 1)
        lo == pos \div 100
        frac == pos % 100
        a == KthSmallest(features, score, lo + 1)
    IN  IF frac = 0 THEN 100 * a
        ELSE 100 * a + frac * (KthSmallest(features, score, lo + 2) - a)

\* the fitted forest: an anomaly score for every row of the training matrix (the same
\* row always gets the same score) and the threshold offset_
Fit(features, score) ==
    [fitted |-> TRUE, score |-> score, offset100 |-> Offset100(features, score)]

\* IsolationForest.predict: -1 where score_samples - offset_ < 0, else 1
Predict(forest, features) ==
    [i \in 1..Len(features) |->
        IF 100 * forest.score[features[i]] < forest.offset100 THEN -1 ELSE 1]

\* mutant: a detector that is already trained keeps its model
Refit_once(forest, features, score) ==
    IF forest.fitted THEN forest ELSE Fit(features, score)

\* train on a detector that may hold a model: fit starts from nothing and the result
\* replaces whatever isolation_forest held
Refit(forest, features, score) == Fit(features, score)

RECURSIVE OutlierLoop_inliers(_, _, _, _)
\* mutant: the records predicted 1 (inliers) are the ones flagged
OutlierLoop_inliers(recs, predictions, i, results) ==
    IF i > Len(predictions) THEN results
    ELSE OutlierLoop_inliers(recs, predictions, i + 1,
            IF predictions[i] = 1
            THEN Append(results,
                   <<ValidationResult("record_outlier",
                        "Record " \o Format(recs[i].patient_id)
                          \o " identified as potential outlier", "medium"), i>>)
            ELSE results)

RECURSIVE OutlierLoop(_, _, _, _)
\* the records flagged, as <<finding, index of the record>>, in enumeration order
OutlierLoop(recs, predictions, i, results) ==
    IF i > Len(predictions) THEN results
    ELSE OutlierLoop(recs, predictions, i + 1,
            IF predictions[i] = -1
            THEN Append(results,
                   <<ValidationResult("record_outlier",
                        "Record " \o Format(recs[i].patient_id)
                          \o " identified as potential outlier", "medium"), i>>)
            ELSE results)

FlaggedRecords(recs, forest) ==
    OutlierLoop(recs, Predict(forest, _extract_features(recs)), 1, <<>>)

detect_outliers(recs, forest) ==
    LET flagged == FlaggedRecords(recs, forest)
    IN  [k \in 1..Len(flagged) |-> flagged[k][1]]

-----------------------------------------------------------------------------
(* Inputs *)

PID1 == Str(<<"P", "0", "0", "0", "0", "0", "1">>)
PID2 == Str(<<"P", "0", "0", "0", "0", "0", "2">>)
PID3 == Str(<<"P", "0", "0", "0", "0", "0", "3">>)
PIDNewline == Str(<<"P", "1", "2", "3", "4", "5", "6", "\n">>)
PIDShort == Str(<<"P", "1", "2", "3", "4", "5">>)
PIDLong == Str(<<"P", "1", "2", "3", "4", "5", "6", "7">>)
PIDLetter == Str(<<"X", "1", "2", "3", "4", "5", "6">>)
PIDLower == Str(<<"p", "1", "2", "3", "4", "5", "6">>)
PIDAlpha == Str(<<"P", "1", "2", "3", "4", "5", "a">>)
PIDTwoNewlines == Str(<<"P", "1", "2", "3", "4", "5", "6", "\n", "\n">>)
PIDEmpty == Str(<<>>)

E119 == <<"E", "1", "1", ".", "9">>
I10 == <<"I", "1", "0">>
BadCodeLower == <<"e", "1", "1">>
BadCodeDot == <<"E", "1", "1", ".">>

VitalNames == Keys(vital_signs_ranges)

TypicalVitals ==
    << Item("blood_pressure_systolic", Num(120)),
       Item("blood_pressure_diastolic", Num(80)),
       Item("heart_rate", Num(75)),
       Item("temperature", Num(37)),
       Item("respiratory_rate", Num(16)) >>

FullDemographics ==
    << Item("age", Num(54)), Item("gender", Text("F")), Item("race", Text("asian")) >>
Labs == << Item("glucose", Num(95)), Item("cholesterol", Num(180)) >>

\* the values tried for a vital sign: around both ends of its range
EdgeValues(name) ==
    {Num(RangeOf(name)[1] - 1), Num(RangeOf(name)[1]),
     Num(RangeOf(name)[2]), Num(RangeOf(name)[2] + 1)}

\* vital_signs dicts with one or two signs of the table, in either order
EdgeVitals ==
    UNION {{<<Item(a, v)>> : v \in EdgeValues(a)} : a \in VitalNames}
    \cup UNION {{<<Item(ab[1], v), Item(ab[2], w)>> :
                     v \in EdgeValues(ab[1]), w \in EdgeValues(ab[2])} :
                  ab \in {x \in VitalNames \X VitalNames : x[1] # x[2]}}

ValidatorVitals ==
    {<<>>, TypicalVitals,
     <<Item("weight", Text("heavy")), Item("heart_rate", Num(201))>>,
     <<Item("heart_rate", Num(39)), Item("respiratory_rate", Text("fast"))>>,
     [i \in 1..5 |-> Item(vital_signs_ranges[i].name,
                          Num(vital_signs_ranges[i].value[2] + 1))]}
    \cup EdgeVitals

ValidatorPatientIds ==
    {PID1, PIDNewline, PIDShort, PIDLong, PIDLetter, PIDLower, PIDAlpha,
     PIDTwoNewlines, PIDEmpty, None}

ValidatorDemographics == {FullDemographics, <<Item("age", Num(54))>>}
ValidatorDiagnoses == {<<>>, <<E119, I10>>, <<BadCodeLower, E119, BadCodeDot>>}

\* the records handed to validate_record
ValidatorRecords ==
    {EHRRecord(p, v, <<"metformin">>, c, Labs, d, None) :
        p \in ValidatorPatientIds, v \in ValidatorVitals,
        d \in ValidatorDemographics, c \in ValidatorDiagnoses}

ScorerVitalsInverted ==
    <<Item("blood_pressure_systolic", Num(80)), Item("blood_pressure_diastolic", Num(120))>>

ScorerVitals ==
    {<<>>, TypicalVitals, ScorerVitalsInverted,
     <<Item("blood_pressure_diastolic", Num(90)), Item("blood_pressure_systolic", Num(90))>>,
     <<Item("blood_pressure_systolic", Num(120))>>,
     <<Item("blood_pressure_diastolic", Num(80))>>,
     <<Item("heart_rate", Num(75))>>}

\* the records of the one-record batches handed to calculate_scores
ScorerRecords ==
    {EHRRecord(p, v, m, c, l, d, n) :
        p \in {PID1, PIDEmpty}, v \in ScorerVitals,
        m \in {<<>>, <<"metformin">>}, c \in {<<>>, <<E119>>},
        l \in {<<>>, Labs}, d \in {<<>>, FullDemographics},
        n \in {None, Str(<<>>), Str(<<"o", "k">>)}}

\* the records of the longer batches handed to calculate_scores
ScorerCoreRecords ==
    {EHRRecord(PID1, TypicalVitals, <<"metformin">>, <<E119>>, Labs, FullDemographics,
               Str(<<"o", "k">>)),
     EHRRecord(PID2, TypicalVitals, <<>>, <<E119>>, Labs, FullDemographics, None),
     EHRRecord(PID3, TypicalVitals, <<"aspirin">>, <<>>, <<>>, <<>>, None),
     EHRRecord(PID1, <<>>, <<>>, <<>>, <<>>, FullDemographics, Str(<<>>)),
     EHRRecord(PIDEmpty, ScorerVitalsInverted, <<"metformin">>, <<E119>>, Labs, <<>>, None)}

Notes == Str(<<"o", "k">>)
Typical ==
    EHRRecord(PID1, TypicalVitals, <<"metformin">>, <<E119>>, Labs, FullDemographics, Notes)
\* another patient with the feature vector of Typical
Twin == [Typical EXCEPT !.patient_id = PID2]
\* one validation finding, the feature vector of Typical
BadId == [Typical EXCEPT !.patient_id = PIDLetter]
\* four validation findings, a feature vector of its own
Deviant ==
    EHRRecord(PID3,
              << Item("blood_pressure_systolic", Num(120)),
                 Item("blood_pressure_diastolic", Num(80)),
                 Item("heart_rate", Num(250)),
                 Item("temperature", Num(30)) >>,
              <<>>, <<E119>>, Labs, <<Item("age", Num(54))>>, None)
\* three validation findings, a feature vector of its own
Deviant2 ==
    EHRRecord(PIDShort, <<Item("blood_pressure_systolic", Num(50))>>,
              <<"insulin", "aspirin">>, <<BadCodeLower>>, <<>>, FullDemographics, None)
\* a patient identifier that is no string: re.match raises TypeError
NoneId == [Typical EXCEPT !.patient_id = None]
\* a vital sign outside the feature vector that is no number
TextVital ==
    [Twin EXCEPT !.vital_signs = [TypicalVitals EXCEPT ![5] =
                                    Item("respiratory_rate", Text("fast"))]]
\* a vital sign of the feature vector that is no number
TextBP ==
    [Typical EXCEPT !.vital_signs = [TypicalVitals EXCEPT ![1] =
                                    Item("blood_pressure_systolic", Text("high"))]]

AuditRecords == {Typical, Twin, BadId, Deviant, NoneId, TextVital, TextBP}

\* a population of Typical and Twin records with Deviant at place i and Deviant2 at
\* place j (0: nowhere)
PopBatch(i, j) ==
    [k \in 1..PopSize |->
        IF k = i THEN Deviant
        ELSE IF k = j THEN Deviant2
        ELSE IF k % 2 = 0 THEN Twin ELSE Typical]

PopBatches ==
    {PopBatch(ij[1], ij[2]) :
        ij \in {x \in (0..PopSize) \X (0..PopSize) : x[1] # x[2] \/ x[1] = 0}}

Batches == UNION {[1..n -> AuditRecords] : n \in 0..MaxBatch} \cup PopBatches

\* the records of the batches an auditor is run on again and again
RerunRecords == {Typical, Deviant, NoneId}

\* the empty batch, the batches of one record and the batches of two
RerunBatches ==
    {<<>>} \cup {<<r>> : r \in RerunRecords}
           \cup {<<r[1], r[2]>> : r \in RerunRecords \X RerunRecords}

\* every feature vector a model of these runs can be asked to score
RerunRows == {record_features(r) : r \in RerunRecords}

ScorerBatches ==
    {<<>>} \cup {<<r>> : r \in ScorerRecords}
           \cup UNION {[1..n -> ScorerCoreRecords] : n \in 2..MaxBatch}

InvalidFinding == ValidationResult("patient_id", "invalid", "high")
ValidFinding == [InvalidFinding EXCEPT !.is_valid = TRUE]
ScorerFindingLists == UNION {[1..n -> {InvalidFinding, ValidFinding}] : n \in 0..MaxFindings}

-----------------------------------------------------------------------------
(* EHRQualityAuditor.process_records *)

\* mutant: the new findings are put in front of the list
extend_front(list, more) == more \o list

\* list.extend
extend(list, more) == list \o more

Stamp(stage, rec) == [stage |-> stage, rec |-> rec]

\* process_records(b) is entered and the detector trained, or fit raises
Train(b) ==
    /\ pc = "idle"
    /\ records' = b
    /\ idx' = 0
    /\ validation_results' = <<>>
    /\ origin' = <<>>
    /\ report' = NoReport
    /\ previous_forest' = isolation_forest
    /\ LET features == _extract_features(b)
       IN  \/ /\ FitRaises(features)
              /\ exc' = "ValueError"
              /\ pc' = "raised"
              /\ UNCHANGED isolation_forest
           \/ /\ ~FitRaises(features)
              /\ \E score \in [Rows(features) -> 1..MaxScore] :
                    isolation_forest' = Fit(features, score)
              /\ exc' = "none"
              /\ pc' = "validate"

\* process_records(b) is entered on an auditor that may have run before
ProcessRecords(b) ==
    /\ pc \in {"idle", "returned", "raised"}
    /\ records' = b
    /\ idx' = 0
    /\ validation_results' = <<>>
    /\ origin' = <<>>
    /\ report' = NoReport
    /\ previous_forest' = isolation_forest
    /\ LET features == _extract_features(b)
       IN  \/ /\ FitRaises(features)
              /\ exc' = "ValueError"
              /\ pc' = "raised"
              /\ UNCHANGED isolation_forest
           \/ /\ ~FitRaises(features)
              /\ \E score \in [RerunRows -> 1..MaxScore] :
                    isolation_forest' = Refit(isolation_forest, features, score)
              /\ exc' = "none"
              /\ pc' = "validate"

\* one turn of `for record in records`, or the first statement after the loop
Validate ==
    /\ pc = "validate"
    /\ idx < Len(records)
    /\ LET out == validate_record(records[idx + 1])
       IN  IF out.exc # "none"
           THEN /\ exc' = out.exc
                /\ pc' = "raised"
                /\ UNCHANGED <<idx, validation_results, origin>>
           ELSE /\ validation_results' = extend(validation_results, out.results)
                /\ origin' = extend(origin,
                       [k \in 1..Len(out.results) |-> Stamp("validation", idx + 1)])
                /\ idx' = idx + 1
                /\ UNCHANGED <<exc, pc>>
    /\ UNCHANGED <<records, isolation_forest, report, previous_forest>>

DetectOutliers ==
    /\ pc = "validate"
    /\ idx = Len(records)
    /\ LET flagged == FlaggedRecords(records, isolation_forest)
       IN  /\ validation_results' =
                extend(validation_results, detect_outliers(records, isolation_forest))
           /\ origin' = extend(origin,
                  [k \in 1..Len(flagged) |-> Stamp("outlier", flagged[k][2])])
    /\ pc' = "calculate_scores"
    /\ UNCHANGED <<records, idx, isolation_forest, report, exc, previous_forest>>

\* QualityScorer.calculate_scores(records, validation_results) and the return
CalculateScores ==
    /\ pc = "calculate_scores"
    /\ report' = calculate_scores(records, validation_results)
    /\ pc' = "returned"
    /\ UNCHANGED <<records, idx, validation_results, origin, isolation_forest, exc,
                   previous_forest>>

\* EHRValidator.validate_record(records[1]) called on its own
ValidateRecord ==
    /\ pc = "validate_record"
    /\ LET out == validate_record(records[1])
       IN  /\ validation_results' = out.results
           /\ exc' = out.exc
           /\ pc' = IF out.exc = "none" THEN "returned" ELSE "raised"
    /\ UNCHANGED <<records, idx, origin, isolation_forest, report, previous_forest>>

-----------------------------------------------------------------------------
(* Specifications *)

\* an auditor after construction, running process_records on one batch
Init ==
    /\ records = <<>>
    /\ pc = "idle"
    /\ idx = 0
    /\ validation_results = <<>>
    /\ origin = <<>>
    /\ isolation_forest = NotFitted
    /\ report = NoReport
    /\ exc = "none"
    /\ previous_forest = NotFitted

Next ==
    \/ \E b \in Batches : Train(b)
    \/ Validate
    \/ DetectOutliers
    \/ CalculateScores

Spec == Init /\ [][Next]_vars

\* one auditor running process_records on batch after batch
NextRerun ==
    \/ \E b \in RerunBatches : ProcessRecords(b)
    \/ Validate
    \/ DetectOutliers
    \/ CalculateScores

SpecRerun == Init /\ [][NextRerun]_vars

\* QualityScorer.calculate_scores on a batch and a finding list
InitScorer ==
    /\ records \in ScorerBatches
    /\ validation_results \in ScorerFindingLists
    /\ pc = "calculate_scores"
    /\ idx = 0
    /\ origin = <<>>
    /\ isolation_forest = NotFitted
    /\ report = NoReport
    /\ exc = "none"
    /\ previous_forest = NotFitted

NextScorer == CalculateScores

SpecScorer == InitScorer /\ [][NextScorer]_vars

\* EHRValidator.validate_record on one record
InitValidator ==
    /\ records \in {<<r>> : r \in ValidatorRecords}
    /\ pc = "validate_record"
    /\ idx = 0
    /\ validation_results = <<>>
    /\ origin = <<>>
    /\ isolation_forest = NotFitted
    /\ report = NoReport
    /\ exc = "none"
    /\ previous_forest = NotFitted

NextValidator == ValidateRecord

SpecValidator == InitValidator /\ [][NextValidator]_vars

-----------------------------------------------------------------------------
(* Properties: QualityScorer, checked under SpecScorer *)

\* the fraction f is the number n / d
IsFraction(f, n, d) == f.den > 0 /\ d > 0 /\ f.num * d = n * f.den
IsValue(f, v) == IsFraction(f, v, 1)

Systolic(r) == Get(r.vital_signs, "blood_pressure_systolic", Num(0)).n
Diastolic(r) == Get(r.vital_signs, "blood_pressure_diastolic", Num(0)).n
HasBothBP(r) ==
    {"blood_pressure_systolic", "blood_pressure_diastolic"} \subseteq Keys(r.vital_signs)
HasNoBP(r) ==
    {"blood_pressure_systolic", "blood_pressure_diastolic"} \cap Keys(r.vital_signs) = {}
DiagnosisImpliesMedication(r) == r.diagnosis_codes # <<>> => r.medications # <<>>

\* C1: when every record of the batch has both blood pressures, the records counted
\* consistent are exactly those with diastolic < systolic and (diagnosis codes
\* present => medications present)
C1_ConsistentIff ==
    (pc = "returned" /\ records # <<>> /\ \A i \in 1..Len(records) : HasBothBP(records[i]))
    => IsFraction(report.consistency_score,
                  100 * Cardinality({i \in 1..Len(records) :
                                       /\ Diastolic(records[i]) < Systolic(records[i])
                                       /\ DiagnosisImpliesMedication(records[i])}),
                  Len(records))

\* C2: a record without blood pressure passes the blood-pressure clause and a record
\* without diagnosis codes passes the diagnosis/medication clause, so it is counted
\* consistent when the other clause holds
C2_TrivialClauses ==
    (pc = "returned" /\ Len(records) = 1)
    => LET r == records[1]
       IN  /\ (HasNoBP(r) /\ DiagnosisImpliesMedication(r))
                => IsValue(report.consistency_score, 100)
           /\ (r.diagnosis_codes = <<>> /\ HasBothBP(r) /\ Diastolic(r) < Systolic(r))
                => IsValue(report.consistency_score, 100)

\* a field is populated: not null and not empty
Populated(r, f) ==
    IF f \in {"patient_id", "notes"}
    THEN r[f].kind = "str" /\ r[f].s # <<>>
    ELSE r[f] # <<>>

SixFields ==
    {"vital_signs", "medications", "diagnosis_codes", "lab_results", "demographics", "notes"}
SevenFields == SixFields \cup {"patient_id"}

PopulatedCount(r, fields) == Cardinality({f \in fields : Populated(r, f)})

RECURSIVE PopulatedTotal(_, _)
PopulatedTotal(recs, fields) ==
    IF recs = <<>> THEN 0
    ELSE PopulatedCount(Head(recs), fields) + PopulatedTotal(Tail(recs), fields)

\* C3 as claimed: the completeness score of a non-empty batch is the mean over the
\* records of (populated fields among the six) / 6 x 100
C3_SixFieldMean ==
    (pc = "returned" /\ records # <<>>)
    => IsFraction(report.completeness_score,
                  100 * PopulatedTotal(records, SixFields), 6 * Len(records))

\* C3 amended: the completeness score of a non-empty batch is the mean over the
\* records of (populated fields among the seven: the six and patient_id) / 7 x 100
C3_SevenFieldMean ==
    (pc = "returned" /\ records # <<>>)
    => IsFraction(report.completeness_score,
                  100 * PopulatedTotal(records, SevenFields), 7 * Len(records))

\* a record with three of the six fields populated and an identifier scores 400/7
C3_Witness ==
    /\ pc = "returned"
    /\ Len(records) = 1
    /\ PopulatedCount(records[1], SixFields) = 3
    /\ Populated(records[1], "patient_id")
    /\ IsFraction(report.completeness_score, 400, 7)

\* C5: calculate_scores on the empty batch with no findings returns completeness 0,
\* consistency 0, accuracy 100 and record_count 0, and does not raise
C5_EmptyBatchReport ==
    (pc = "returned" /\ records = <<>> /\ validation_results = <<>>)
    => /\ exc = "none"
       /\ IsValue(report.completeness_score, 0)
       /\ IsValue(report.consistency_score, 0)
       /\ IsValue(report.accuracy_score, 100)
       /\ report.record_count = 0
       /\ report.validation_results = <<>>

C5_Witness ==
    /\ pc = "returned"
    /\ records = <<>>
    /\ validation_results = <<>>
    /\ report # NoReport

-----------------------------------------------------------------------------
(* Properties: EHRValidator, checked under SpecValidator *)

\* the places of the findings with this field name
FindingsOf(results, field_name) ==
    {k \in 1..Len(results) : results[k].field_name = field_name}

\* exactly the letter P followed by 6 digits
IsPAndSixDigits(s) ==
    Len(s) = 7 /\ s[1] = "P" /\ \A i \in 2..7 : s[i] \in Digits

\* C9: validate_record emits exactly one patient_id finding (high, is_valid false)
\* when the identifier is not exactly P followed by 6 digits, and none when it is,
\* whatever the other fields hold
C9_OnePatientIdFinding ==
    pc = "returned"
    => LET found == FindingsOf(validation_results, "patient_id")
       IN  /\ Cardinality(found) =
                 IF IsPAndSixDigits(records[1].patient_id.s) THEN 0 ELSE 1
           /\ \A k \in found : /\ validation_results[k].severity = "high"
                                /\ ~validation_results[k].is_valid

\* the range table of the claim
ClaimRange(name) ==
    CASE name = "blood_pressure_systolic" -> <<60, 200>>
      [] name = "blood_pressure_diastolic" -> <<40, 130>>
      [] name = "heart_rate" -> <<40, 200>>
      [] name = "temperature" -> <<35, 42>>
      [] name = "respiratory_rate" -> <<8, 40>>

ClaimNames ==
    {"blood_pressure_systolic", "blood_pressure_diastolic", "heart_rate",
     "temperature", "respiratory_rate"}

\* the sign is present with a value strictly below min or strictly above max
OutOfRange(r, name) ==
    /\ name \in Keys(r.vital_signs)
    /\ LET v == Get(r.vital_signs, name, Num(0)).n
       IN  v < ClaimRange(name)[1] \/ v > ClaimRange(name)[2]

-----------------------------------------------------------------------------
(* Properties: EHRQualityAuditor.process_records, checked under Spec *)

\* every field of the record has its declared type: the identifier is a string and
\* the vital signs are numbers
WellTyped(r) ==
    /\ r.patient_id.kind = "str"
    /\ \A i \in 1..Len(r.vital_signs) : r.vital_signs[i].value.kind = "num"

WellFormed(recs) == \A i \in 1..Len(recs) : WellTyped(recs[i])

\* C4: process_records on a well-formed batch of any length, the empty batch
\* included, does not raise, and the report of the empty batch has record_count 0
C4_AlwaysReport ==
    WellFormed(records)
    => /\ pc # "raised"
       /\ (pc = "returned" /\ records = <<>>) => report.record_count = 0

\* all the feature vectors of the batch are the same (a singleton batch included)
Homogeneous(recs) ==
    /\ Len(recs) >= 1
    /\ \A i \in 1..Len(recs) : record_features(recs[i]) = record_features(recs[1])

OutlierFindings(results) == FindingsOf(results, "record_outlier")

C7_BadRecordIsolated ==
    (\E i \in 1..Len(records) : ~WellTyped(records[i])) => pc # "raised"

\* C8: in the returned report all validation findings come first, grouped by record
\* in batch order, then the record_outlier findings in batch order of their records
C8_FindingOrder ==
    pc = "returned"
    => /\ report.validation_results = validation_results
       /\ Len(origin) = Len(validation_results)
       /\ \A p \in 1..Len(origin) :
             /\ origin[p].rec \in 1..Len(records)
             /\ (origin[p].stage = "outlier")
                  <=> (validation_results[p].field_name = "record_outlier")
             /\ origin[p].stage = "outlier"
                  => validation_results[p].error_message =
                        "Record " \o Format(records[origin[p].rec].patient_id)
                          \o " identified as potential outlier"
       /\ \A p \in 1..Len(origin) : \A q \in (p + 1)..Len(origin) :
             /\ origin[p].stage = "outlier" => origin[q].stage = "outlier"
             /\ origin[p].stage = origin[q].stage => origin[p].rec <= origin[q].rec
             /\ (origin[p].stage = "outlier" /\ origin[q].stage = "outlier")
                  => origin[p].rec < origin[q].rec

\* validation findings of two records, then the outlier findings of two records
C8_Witness ==
    /\ pc = "returned"
    /\ \E p \in 1..Len(origin) : \E q \in (p + 1)..Len(origin) :
          /\ origin[p].stage = "validation"
          /\ origin[q].stage = "validation"
          /\ origin[p].rec < origin[q].rec
    /\ Cardinality({origin[p].rec : p \in {k \in 1..Len(origin) :
                                             origin[k].stage = "outlier"}}) >= 2

-----------------------------------------------------------------------------
(* Properties: completeness monotonicity, checked under SpecScorer *)

\* populated values of an optional field
PopulatedValues(f) ==
    CASE f = "vital_signs" -> {TypicalVitals, <<Item("heart_rate", Num(75))>>}
      [] f = "medications" -> {<<"metformin">>}
      [] f = "diagnosis_codes" -> {<<E119>>}
      [] f = "lab_results" -> {Labs}
      [] f = "demographics" -> {FullDemographics, <<Item("age", Num(54))>>}
      [] f = "notes" -> {Notes}

\* the batch with field f of record i set to v, everything else as it was
WithField(recs, i, f, v) == [recs EXCEPT ![i] = [@ EXCEPT ![f] = v]]

LeqFraction(a, b) == a.den > 0 /\ b.den > 0 /\ a.num * b.den <= b.num * a.den

\* C11: populating one unpopulated optional field of one record, all else fixed,
\* never decreases the record's contribution nor the batch completeness score
C11_CompletenessMonotone ==
    pc = "returned"
    => \A i \in 1..Len(records) : \A f \in SixFields :
          ~Populated(records[i], f)
          => \A v \in PopulatedValues(f) :
                /\ fields_present(records[i])
                     <= fields_present(WithField(records, i, f, v)[i])
                /\ LeqFraction(report.completeness_score,
                               _calculate_completeness(WithField(records, i, f, v)))

\* a batch of several records, one of which has empty ("") notes that can be populated
C11_Witness ==
    /\ pc = "returned"
    /\ Len(records) >= 2
    /\ \E i \in 1..Len(records) :
          /\ records[i].notes = Str(<<>>)
          /\ ~LeqFraction(_calculate_completeness(WithField(records, i, "notes", Notes)),
                          report.completeness_score)

-----------------------------------------------------------------------------
(* Properties: the values of accuracy_score, checked under Spec *)

\* C13: every finding of validate_record and detect_outliers has is_valid = FALSE,
\* so the accuracy_score of the report of process_records is 100 when the batch
\* produced no finding and 0 as soon as there is one finding
C13_AccuracyZeroOrHundred ==
    /\ \A k \in 1..Len(validation_results) : ~validation_results[k].is_valid
    /\ pc = "returned"
       => /\ report.validation_results = validation_results
          /\ Len(validation_results) = 0 => IsValue(report.accuracy_score, 100)
          /\ Len(validation_results) > 0 => IsValue(report.accuracy_score, 0)

\* a report whose findings come from both the validator and the outlier detector
C13_Witness ==
    /\ pc = "returned"
    /\ \E p \in 1..Len(origin) : origin[p].stage = "validation"
    /\ \E q \in 1..Len(origin) : origin[q].stage = "outlier"
    /\ Len(report.validation_results) >= 2
    /\ IsValue(report.accuracy_score, 0)

-----------------------------------------------------------------------------
(* Properties: a run does not depend on earlier runs, checked under SpecRerun *)

RECURSIVE ValidateLoop(_, _, _)
\* the loop of process_records over recs from place i, as one function
ValidateLoop(recs, i, results) ==
    IF i > Len(recs) THEN Ok(results)
    ELSE LET out == validate_record(recs[i])
         IN  IF out.exc # "none" THEN Raise(out.exc)
             ELSE ValidateLoop(recs, i + 1, extend(results, out.results))

\* the exception that ends the first run of a new auditor on b, or "none"
FirstRunExc(b) ==
    IF FitRaises(_extract_features(b)) THEN "ValueError"
    ELSE ValidateLoop(b, 1, <<>>).exc

\* the report of the first run of a new auditor on b, when the fit on b scores the
\* feature vectors by score
FirstRunReport(b, score) ==
    calculate_scores(b,
        extend(ValidateLoop(b, 1, <<>>).results,
               detect_outliers(b, Fit(_extract_features(b), score))))

\* C12: whatever ran before on the auditor, the model that detect_outliers uses is the
\* one fit on the current batch, and the run ends as the first run of a new auditor on
\* that batch ends: the same exception, or the same scores, record count and findings
C12_RunDependsOnBatchOnly ==
    /\ pc \in {"validate", "calculate_scores", "returned"}
       => /\ isolation_forest.fitted
          /\ isolation_forest = Fit(_extract_features(records), isolation_forest.score)
    /\ pc = "returned"
       => /\ FirstRunExc(records) = "none"
          /\ report = FirstRunReport(records, isolation_forest.score)
    /\ pc = "raised" => FirstRunExc(records) = exc

\* a run that returned on an auditor whose earlier model would have flagged a record
\* of this batch, while the model of this run flags none
C12_Witness ==
    /\ pc = "returned"
    /\ previous_forest.fitted
    /\ previous_forest # isolation_forest
    /\ FlaggedRecords(records, previous_forest) # <<>>
    /\ FlaggedRecords(records, isolation_forest) = <<>>
    /\ OutlierFindings(report.validation_results) = {}

=============================================================================
